---- MODULE Spec2Model ----
(***************************************************************************)
(* Job admission (lambda_orchestrator.py), the worker script it embeds in  *)
(* the instance user data, and the status checker                          *)
(* (lambda_status_checker.py), for one job.  Parameters and object keys    *)
(* are namespaced by job_id, so the records of different jobs are          *)
(* disjoint; one invocation of the admission handler is modelled.          *)
(***************************************************************************)
EXTENDS Integers, Sequences, FiniteSets, Bags, TLC

\* ------------------------------------------------------------------ bounds
MaxImages == 2
MaxFaces == 1
\* list_recent_jobs: number of job ids that may have parameters, largest limit asked
MaxListJobs == 3
MaxLimit == 2
\* lambda_handler.py: faces the model finds in one image
MaxSyncFaces == 2
\* dump.py: processes started, images in INPUT_DIR, faces found in one image
MaxDumpProcs == 2
MaxDumpImages == 2
MaxDumpFaces == 2

\* ------------------------------------------------------------ input domains
\* Filenames as character sequences; the second looks like an indexed key.
Filenames == { <<"a">>, <<"0", "0", "1", "_", "a">> }

ImageEntries ==
    { [has_filename |-> TRUE, filename |-> f, data |-> d] :
        f \in Filenames, d \in {"ok", "bad_b64"} }
    \cup { [has_filename |-> FALSE, filename |-> <<>>, data |-> "ok"] }

SeqsUpTo(S, n) == UNION { [1..k -> S] : k \in 0..n }

Events ==
    { [has_images |-> FALSE, images |-> <<>>] }
    \cup { [has_images |-> TRUE, images |-> s] : s \in SeqsUpTo(ImageEntries, MaxImages) }

\* ------------------------------------------------------------ pure helpers
DigitChar(d) == <<"0", "1", "2", "3", "4", "5", "6", "7", "8", "9">>[d + 1]

RECURSIVE Digits(_)
Digits(n) == IF n < 10 THEN <<DigitChar(n)>>
             ELSE Digits(n \div 10) \o <<DigitChar(n % 10)>>

\* format spec 03d: decimal digits, left-padded with zeros to width 3
Pad3(n) ==
    LET d == Digits(n)
    IN  IF Len(d) >= 3 THEN d
        ELSE [i \in 1..(3 - Len(d)) |-> "0"] \o d

JobPrefix == <<"jobs/job_1/input/">>

\* s3_key = f"jobs/{job_id}/input/{idx:03d}_{filename}"
S3Key_nameonly(idx, filename) == JobPrefix \o filename
S3Key(idx, filename) == JobPrefix \o Pad3(idx) \o <<"_">> \o filename

\* the two input checks of lambda_handler
ValidateInput_noempty(ev) ==
    IF ~ev.has_images THEN "missing" ELSE "ok"
ValidateInput(ev) ==
    IF ~ev.has_images THEN "missing"
    ELSE IF ev.images = <<>> THEN "empty"
    ELSE "ok"

\* lambda_handler's return values; cause stands for str(e) in the 500 body
NoResponse == [statusCode |-> 0, error |-> FALSE, status |-> "none", cause |-> "none"]
Response400 == [statusCode |-> 400, error |-> TRUE, status |-> "none", cause |-> "validation"]
Response500(c) == [statusCode |-> 500, error |-> TRUE, status |-> "none", cause |-> c]
Response200 == [statusCode |-> 200, error |-> FALSE, status |-> "processing", cause |-> "none"]

\* job_info before any field is set
NoInfo == [status |-> "none", instance_id |-> "none",
           has_results |-> FALSE, results |-> <<>>, results_error |-> FALSE,
           error |-> FALSE]

VARIABLES
    event,          \* the event of the admission invocation
    l_pc,           \* position of lambda_handler (orchestrator)
    up_idx,         \* upload_images_to_s3: number of loop iterations done
    s3_keys,        \* upload_images_to_s3: keys uploaded so far, in order
    s3_input,       \* object store: keys under jobs/{job_id}/input/
    put_failed,     \* history: a put_object of upload_images_to_s3 raised
    response,       \* what lambda_handler returned
    launched,       \* number of instances run_instances has started
    ssm_status,     \* parameter /divinepic/jobs/{job_id}/status ("none" = absent)
    ssm_instance,   \* parameter /divinepic/jobs/{job_id}/instance_id
    w_pc,           \* position of the worker (user data script)
    w_idx,          \* process_job: number of loop iterations done
    results,        \* process_job: the results list
    s3_results,     \* object store: jobs/{job_id}/results.json
    es_docs,        \* search index: documents written, as <<image index, position>>
    es_tried,       \* history: es_client.index calls made, as <<image index, position>>
    w_truth,        \* history: what happened to each image the worker processed
    term_writes,    \* number of terminal status writes the worker performed
    gs_pc,          \* position of get_job_status
    gs_late,        \* the current get_job_status call began after submit returned 200
    job_info,       \* get_job_status: the job_info being built / returned
    gs_fetch_failed, \* history: the results fetch of the current call raised
    ls_store,       \* list_recent_jobs: the parameter store, per job id
    ls_limit,       \* list_recent_jobs: limit
    ls_pc,          \* position of list_recent_jobs ("off": not invoked in this run)
    ls_ids,         \* list_recent_jobs: sorted_job_ids
    ls_jobs,        \* list_recent_jobs: jobs, the list returned
    sy_event,       \* lambda_handler.py: the event of a direct invocation
    sy_pc,          \* lambda_handler.py: position ("off": not invoked in this run)
    sy_idx,         \* lambda_handler.py: images the loop has gone through
    sy_results,     \* lambda_handler.py: results
    sy_response,    \* lambda_handler.py: what the handler returned
    sy_docs,        \* lambda_handler.py: documents written, as <<image index, position>>
    sy_tried,       \* history: es_client.index calls made by process_single_image
    sy_truth,       \* history: what happened to each image of the request
    dp,             \* dump.py: per process, where main stands and what it saw
    ix_exists,      \* per Elasticsearch host: the index face_embeddings exists
    ix_calls,       \* per Elasticsearch host: indices.create requests received
    dp_tried,       \* history: client.index calls, as <<process, image, face, host>>
    dp_failed,      \* history: the first client.index call that raised, or <<>>
    fm_app,         \* lambda_handler.py: the global face_app (0 = None, else the instance)
    fm_made,        \* number of FaceAnalysis instances constructed in the process
    fm_th,          \* per calling thread: position in get_face_model, calls made, models received
    ix_docs,        \* the documents of face_embeddings on one host, a bag of [id, body]
    ix_run,         \* runs of one image: number started, and the face loop of the current one
    ix_last,        \* history: the last es_client.index call and what it met
    dt_name,        \* the filename handed to both uploads
    dt_now,         \* the clock, in ms since the epoch
    dt_strict,      \* dump.py upload_image_flat: what it did
    dt_lenient,     \* lambda_handler.py upload_image_to_s3: what it did
    adm,            \* admissions over time: the clock and when each job_id was generated
    fid             \* process_job: the keys of a run and the face ids it has generated

vars == <<event, l_pc, up_idx, s3_keys, s3_input, put_failed, response, launched, ssm_status,
          ssm_instance, w_pc, w_idx, results, s3_results, es_docs, es_tried, w_truth,
          term_writes,
          gs_pc, gs_late, job_info, gs_fetch_failed,
          ls_store, ls_limit, ls_pc, ls_ids, ls_jobs,
          sy_event, sy_pc, sy_idx, sy_results, sy_response, sy_docs, sy_tried, sy_truth,
          dp, ix_exists, ix_calls, dp_tried, dp_failed,
          fm_app, fm_made, fm_th,
          ix_docs, ix_run, ix_last,
          dt_name, dt_now, dt_strict, dt_lenient,
          adm,
          fid>>

wrk_vars == <<w_pc, w_idx, results, s3_results, es_docs, es_tried, w_truth, term_writes>>
gs_vars == <<gs_pc, gs_late, job_info, gs_fetch_failed>>
job_vars == <<event, l_pc, up_idx, s3_keys, s3_input, put_failed, response, launched,
              ssm_status, ssm_instance, wrk_vars, gs_vars>>
list_vars == <<ls_store, ls_limit, ls_pc, ls_ids, ls_jobs>>
\* the state of the other entry points, which the actions of the job leave alone
sync_vars == <<sy_event, sy_pc, sy_idx, sy_results, sy_response, sy_docs, sy_tried, sy_truth>>
dump_vars == <<dp, ix_exists, ix_calls, dp_tried, dp_failed>>
\* the state of the scripts and library functions modelled on their own
model_vars == <<fm_app, fm_made, fm_th>>
index_vars == <<ix_docs, ix_run, ix_last>>
date_vars == <<dt_name, dt_now, dt_strict, dt_lenient>>
admit_vars == <<adm>>
fid_vars == <<fid>>
more_vars == <<dump_vars, model_vars, index_vars, date_vars, admit_vars, fid_vars>>
\* what the actions of dump.py, and of get_face_model, leave alone
dump_rest == <<job_vars, list_vars, sync_vars, model_vars, index_vars, date_vars, admit_vars, fid_vars>>
model_rest == <<job_vars, list_vars, sync_vars, dump_vars, index_vars, date_vars, admit_vars, fid_vars>>
index_rest == <<job_vars, list_vars, sync_vars, dump_vars, model_vars, date_vars, admit_vars, fid_vars>>
date_rest == <<job_vars, list_vars, sync_vars, dump_vars, model_vars, index_vars, admit_vars, fid_vars>>
ext_vars == <<list_vars, sync_vars, more_vars>>

\* the job's state before lambda_handler is invoked; pc is "idle", or "off"
\* in a run that follows another entry point
JobVarsInit(pc) ==
    /\ event = [has_images |-> FALSE, images |-> <<>>]
    /\ l_pc = pc
    /\ up_idx = 0
    /\ s3_keys = <<>>
    /\ s3_input = {}
    /\ put_failed = FALSE
    /\ response = NoResponse
    /\ launched = 0
    /\ ssm_status = "none"
    /\ ssm_instance = "none"
    /\ w_pc = "off"
    /\ w_idx = 0
    /\ results = <<>>
    /\ s3_results = [exists |-> FALSE, body |-> <<>>]
    /\ es_docs = {}
    /\ es_tried = {}
    /\ w_truth = <<>>
    /\ term_writes = 0
    /\ gs_pc = "idle"
    /\ gs_late = FALSE
    /\ job_info = NoInfo
    /\ gs_fetch_failed = FALSE

\* list_recent_jobs is not invoked in this run
ListOff ==
    /\ ls_store = <<>>
    /\ ls_limit = 0
    /\ ls_pc = "off"
    /\ ls_ids = <<>>
    /\ ls_jobs = <<>>

\* the value of sy_response before the handler returns
SyncNoResponse ==
    [kind |-> "none", total_images |-> 0, total_faces_detected |-> 0,
     total_faces_indexed |-> 0, errors |-> 0, results |-> <<>>]

SyncVarsInit(pc) ==
    /\ sy_event = [has_images |-> FALSE, images |-> <<>>]
    /\ sy_pc = pc
    /\ sy_idx = 0
    /\ sy_results = <<>>
    /\ sy_response = SyncNoResponse
    /\ sy_docs = {}
    /\ sy_tried = {}
    /\ sy_truth = <<>>

\* the handler of lambda_handler.py is not invoked in this run
SyncOff == SyncVarsInit("off")

\* dump.py is not run
DumpOff ==
    /\ dp = <<>>
    /\ ix_exists = <<>>
    /\ ix_calls = <<>>
    /\ dp_tried = {}
    /\ dp_failed = <<>>

\* get_face_model is not called
ModelOff ==
    /\ fm_app = 0
    /\ fm_made = 0
    /\ fm_th = <<>>

\* no image is indexed on its own
IndexOff ==
    /\ ix_docs = <<>>
    /\ ix_run = <<>>
    /\ ix_last = <<>>

\* no upload derives a date tag on its own
DateOff ==
    /\ dt_name = <<>>
    /\ dt_now = 0
    /\ dt_strict = <<>>
    /\ dt_lenient = <<>>

\* no job is admitted over time
AdmitOff ==
    /\ adm = <<>>

\* no worker run derives face ids
FidOff ==
    /\ fid = <<>>

MoreOff == DumpOff /\ ModelOff /\ IndexOff /\ DateOff /\ AdmitOff /\ FidOff

\* a run of dump.py, or of get_face_model, alone
DumpRestOff == JobVarsInit("off") /\ ListOff /\ SyncOff /\ ModelOff /\ IndexOff /\ DateOff /\ AdmitOff /\ FidOff
ModelRestOff == JobVarsInit("off") /\ ListOff /\ SyncOff /\ DumpOff /\ IndexOff /\ DateOff /\ AdmitOff /\ FidOff
IndexRestOff == JobVarsInit("off") /\ ListOff /\ SyncOff /\ DumpOff /\ ModelOff /\ DateOff /\ AdmitOff /\ FidOff
DateRestOff == JobVarsInit("off") /\ ListOff /\ SyncOff /\ DumpOff /\ ModelOff /\ IndexOff /\ AdmitOff /\ FidOff

Init == JobVarsInit("idle") /\ ListOff /\ SyncOff /\ MoreOff

\* ------------------------------------------------- lambda_handler (submit)
\* where lambda_handler stands after i of n loop iterations of
\* upload_images_to_s3: in the loop, or at run_instances in launch_gpu_instance
UploadPc(i, n) == IF i < n THEN "upload" ELSE "run_instances"

\* initialize_clients, input validation, job id generation (lines 337-363)
Invoke ==
    /\ l_pc = "idle"
    /\ \E ev \in Events :
        /\ event' = ev
        /\ IF ValidateInput(ev) = "ok"
           THEN /\ l_pc' = UploadPc(0, Len(ev.images))
                /\ response' = response
           ELSE /\ l_pc' = "returned"
                /\ response' = Response400
    /\ UNCHANGED <<up_idx, s3_keys, s3_input, put_failed, launched, ssm_status, ssm_instance>>
    /\ UNCHANGED wrk_vars
    /\ UNCHANGED gs_vars
    /\ UNCHANGED ext_vars

\* what the except clause of upload_images_to_s3 does with a failed put
OnPutError_continue == "continue"
OnPutError == "raise"

\* one iteration of the loop of upload_images_to_s3 (lines 47-65); an
\* exception propagates to the except clause of lambda_handler (lines 391-400)
UploadImage ==
    /\ l_pc = "upload"
    /\ LET img == event.images[up_idx + 1]
           n == Len(event.images)
       IN  IF ~img.has_filename \/ img.data # "ok"
           THEN \* KeyError, binascii.Error
                /\ l_pc' = "returned"
                /\ response' = Response500("failed_entry")
                /\ UNCHANGED <<up_idx, s3_keys, s3_input, put_failed>>
           ELSE \/ /\ s3_input' = s3_input \cup {S3Key(up_idx, img.filename)}
                   /\ UNCHANGED put_failed
                   /\ s3_keys' = Append(s3_keys, S3Key(up_idx, img.filename))
                   /\ up_idx' = up_idx + 1
                   /\ l_pc' = UploadPc(up_idx + 1, n)
                   /\ UNCHANGED response
                \/ /\ IF OnPutError = "raise"
                      THEN /\ l_pc' = "returned"
                           /\ response' = Response500("failed_upload")
                           /\ UNCHANGED up_idx
                      ELSE /\ l_pc' = UploadPc(up_idx + 1, n)
                           /\ up_idx' = up_idx + 1
                           /\ UNCHANGED response
                   /\ put_failed' = TRUE
                   /\ UNCHANGED <<s3_keys, s3_input>>
    /\ UNCHANGED <<event, launched, ssm_status, ssm_instance>>
    /\ UNCHANGED wrk_vars
    /\ UNCHANGED gs_vars
    /\ UNCHANGED ext_vars

MaxCount_two == 1 + 1
\* 'MinCount': 1, 'MaxCount': 1 of launch_params (lines 274-275)
MaxCount == 1

\* ec2_client.run_instances (lines 296-298): the instance starts running
\* the user data
RunInstances ==
    /\ l_pc = "run_instances"
    /\ \/ /\ launched' = launched + MaxCount
          /\ w_pc' = "boot"
          /\ l_pc' = "put_status"
          /\ UNCHANGED response
       \/ /\ l_pc' = "returned"
          /\ response' = Response500("failed_launch")
          /\ UNCHANGED <<launched, w_pc>>
    /\ UNCHANGED <<event, up_idx, s3_keys, s3_input, put_failed, ssm_status, ssm_instance>>
    /\ UNCHANGED <<w_idx, results, s3_results, es_docs, es_tried, w_truth, term_writes>>
    /\ UNCHANGED gs_vars
    /\ UNCHANGED ext_vars

\* the status value launch_gpu_instance stores after the launch
LaunchStatus_queued == "queued"
LaunchStatus == "processing"

\* ssm put_parameter(.../status, "processing", Overwrite=True) (lines 303-308)
PutStatus ==
    /\ l_pc = "put_status"
    /\ \/ /\ ssm_status' = LaunchStatus
          /\ l_pc' = "put_instance"
          /\ UNCHANGED response
       \/ /\ l_pc' = "returned"
          /\ response' = Response500("failed_param")
          /\ UNCHANGED ssm_status
    /\ UNCHANGED <<event, up_idx, s3_keys, s3_input, put_failed, launched, ssm_instance>>
    /\ UNCHANGED wrk_vars
    /\ UNCHANGED gs_vars
    /\ UNCHANGED ext_vars

\* ssm put_parameter(.../instance_id, instance_id, Overwrite=True)
\* (lines 310-317), then lambda_handler returns 200 (lines 371-389)
PutInstance ==
    /\ l_pc = "put_instance"
    /\ \/ /\ ssm_instance' = "i-1"
          /\ response' = Response200
       \/ /\ response' = Response500("failed_param")
          /\ UNCHANGED ssm_instance
    /\ l_pc' = "returned"
    /\ UNCHANGED <<event, up_idx, s3_keys, s3_input, put_failed, launched, ssm_status>>
    /\ UNCHANGED wrk_vars
    /\ UNCHANGED gs_vars
    /\ UNCHANGED ext_vars

\* ------------------------------------------- worker (user data script)
RunningPcs == {"boot", "init", "loop", "py_status", "sh_status"}

\* lines 76-100 of the script: package installation; set -e ends the script
\* at the first command that fails
WorkerBoot ==
    /\ w_pc = "boot"
    /\ w_pc' \in {"init", "exited"}
    /\ UNCHANGED <<event, l_pc, up_idx, s3_keys, s3_input, put_failed, response, launched,
                   ssm_status, ssm_instance>>
    /\ UNCHANGED <<w_idx, results, s3_results, es_docs, es_tried, w_truth, term_writes>>
    /\ UNCHANGED gs_vars
    /\ UNCHANGED ext_vars

\* where the shell script continues after python3 process_images.py exits
AfterPython_noset_e(ok) == "sh_status"
AfterPython(ok) == IF ok THEN "sh_status" ELSE "exited"

\* process_job: clients, setup_face_model; an exception ends the process
WorkerInit ==
    /\ w_pc = "init"
    /\ w_pc' \in {"loop", AfterPython(FALSE)}
    /\ UNCHANGED <<event, l_pc, up_idx, s3_keys, s3_input, put_failed, response, launched,
                   ssm_status, ssm_instance>>
    /\ UNCHANGED <<w_idx, results, s3_results, es_docs, es_tried, w_truth, term_writes>>
    /\ UNCHANGED gs_vars
    /\ UNCHANGED ext_vars

\* the subsequences of 1..n: the positions whose index write succeeded
RECURSIVE SubSeqs(_)
SubSeqs(n) == IF n = 0 THEN {<<>>}
              ELSE SubSeqs(n - 1) \cup { Append(s, n) : s \in SubSeqs(n - 1) }

OkFields == {"s3_key", "public_url", "faces_detected", "faces_indexed", "faces"}
ErrFields == {"s3_key", "error", "faces_detected"}

OkResult_counts(key, n, indexed) ==
    [s3_key |-> key, fields |-> OkFields, error |-> "none",
     faces_detected |-> Len(indexed), faces_indexed |-> n, faces |-> indexed]
\* the record the try block appends (lines 200-208)
OkResult(key, n, indexed) ==
    [s3_key |-> key, fields |-> OkFields, error |-> "none",
     faces_detected |-> n, faces_indexed |-> Len(indexed), faces |-> indexed]

ErrResult_zerofaces(key, why) == OkResult(key, 0, <<>>)
\* the record the except block appends (lines 210-216)
ErrResult(key, why) ==
    [s3_key |-> key, fields |-> ErrFields, error |-> why,
     faces_detected |-> 0, faces_indexed |-> 0, faces |-> <<>>]

\* str(e) of the exception the per-image try block raised: the decode
\* failure (imdecode returns None, cvtColor raises), or any other (get_object,
\* face_app.get)
ErrorKinds == {"decode", "other"}

\* what the except block of the per-image loop leaves in results
OnImageError_skip(res, key, why) == res
OnImageError(res, key, why) == Append(res, ErrResult(key, why))

\* the loop over the detected faces 1..n, where wr lists the faces whose
\* es_client.index call returns: every face is tried, the inner except
\* swallows a failed write, indexed_faces holds the faces written
IndexFaces_abort(n, wr) ==
    LET written == { wr[k] : k \in 1..Len(wr) }
        stop == IF (1..n) \subseteq written THEN n
                ELSE CHOOSE k \in (1..n) \ written : \A j \in 1..(k - 1) : j \in written
    IN  [tried |-> 1..stop, indexed |-> [k \in 1..(IF stop \in written THEN stop ELSE stop - 1) |-> k]]
IndexFaces(n, wr) == [tried |-> 1..n, indexed |-> wr]

\* one iteration of the loop over S3_KEYS (lines 153-216)
ProcessImage ==
    /\ w_pc = "loop"
    /\ w_idx < Len(s3_keys)
    /\ w_idx' = w_idx + 1
    /\ LET i == w_idx + 1
           key == s3_keys[i]
       IN  \/ \E why \in ErrorKinds :
                /\ results' = OnImageError(results, key, why)
                /\ w_truth' = Append(w_truth, [outcome |-> why, faces |-> 0])
                /\ UNCHANGED <<es_docs, es_tried>>
           \/ \E n \in 0..MaxFaces : \E wr \in SubSeqs(n) :
                LET fl == IndexFaces(n, wr)
                IN  /\ results' = Append(results, OkResult(key, n, fl.indexed))
                    /\ w_truth' = Append(w_truth, [outcome |-> "ok", faces |-> n])
                    /\ es_tried' = es_tried \cup { <<i, k>> : k \in fl.tried }
                    /\ es_docs' = es_docs
                                   \cup { <<i, fl.indexed[k]>> : k \in 1..Len(fl.indexed) }
    /\ UNCHANGED <<event, l_pc, up_idx, s3_keys, s3_input, put_failed, response, launched,
                   ssm_status, ssm_instance>>
    /\ UNCHANGED <<w_pc, s3_results, term_writes>>
    /\ UNCHANGED gs_vars
    /\ UNCHANGED ext_vars

\* s3_client.put_object(results.json) (lines 218-225); an exception ends
\* the process
UploadResults ==
    /\ w_pc = "loop"
    /\ w_idx = Len(s3_keys)
    /\ \/ /\ s3_results' = [exists |-> TRUE, body |-> results]
          /\ w_pc' = "py_status"
       \/ /\ w_pc' = AfterPython(FALSE)
          /\ UNCHANGED s3_results
    /\ UNCHANGED <<event, l_pc, up_idx, s3_keys, s3_input, put_failed, response, launched,
                   ssm_status, ssm_instance>>
    /\ UNCHANGED <<w_idx, results, es_docs, es_tried, w_truth, term_writes>>
    /\ UNCHANGED gs_vars
    /\ UNCHANGED ext_vars

\* process_job's put_parameter(status, "completed") (lines 229-239); a
\* failure is logged and the process exits normally
PyStatus ==
    /\ w_pc = "py_status"
    /\ \/ /\ ssm_status' = "completed"
          /\ term_writes' = term_writes + 1
       \/ UNCHANGED <<ssm_status, term_writes>>
    /\ w_pc' = AfterPython(TRUE)
    /\ UNCHANGED <<event, l_pc, up_idx, s3_keys, s3_input, put_failed, response, launched,
                   ssm_instance>>
    /\ UNCHANGED <<w_idx, results, s3_results, es_docs, es_tried, w_truth>>
    /\ UNCHANGED gs_vars
    /\ UNCHANGED ext_vars

\* aws ssm put-parameter ... --value "completed" --overwrite (line 256),
\* then shutdown
ShStatus ==
    /\ w_pc = "sh_status"
    /\ \/ /\ ssm_status' = "completed"
          /\ term_writes' = term_writes + 1
          /\ w_pc' = "done"
       \/ /\ w_pc' = "exited"
          /\ UNCHANGED <<ssm_status, term_writes>>
    /\ UNCHANGED <<event, l_pc, up_idx, s3_keys, s3_input, put_failed, response, launched,
                   ssm_instance>>
    /\ UNCHANGED <<w_idx, results, s3_results, es_docs, es_tried, w_truth>>
    /\ UNCHANGED gs_vars
    /\ UNCHANGED ext_vars

\* the instance is stopped or the process killed from outside
WorkerKill ==
    /\ w_pc \in RunningPcs
    /\ w_pc' = "killed"
    /\ UNCHANGED <<event, l_pc, up_idx, s3_keys, s3_input, put_failed, response, launched,
                   ssm_status, ssm_instance>>
    /\ UNCHANGED <<w_idx, results, s3_results, es_docs, es_tried, w_truth, term_writes>>
    /\ UNCHANGED gs_vars
    /\ UNCHANGED ext_vars

\* ------------------------------------- get_job_status (status checker)
\* the dictionary the outer except clause returns (lines 93-99)
ErrorInfo == [NoInfo EXCEPT !.status = "error", !.error = TRUE]

\* the status reported when the status parameter does not exist
DefaultStatus == "unknown"

ParamAfterGet_delete(value) == "none"
\* the stored value of a parameter after ssm get_parameter returned it: the
\* call reads, the parameter stays as it was
ParamAfterGet(value) == value

\* ssm get_parameter(status) (lines 43-50)
GetStatusParam ==
    /\ gs_pc \in {"idle", "done"}
    /\ gs_late' = (response.statusCode = 200)
    /\ gs_fetch_failed' = FALSE
    /\ \/ /\ job_info' = [NoInfo EXCEPT !.status =
                            IF ssm_status = "none" THEN DefaultStatus ELSE ssm_status]
          /\ gs_pc' = "instance"
       \/ /\ job_info' = ErrorInfo
          /\ gs_pc' = "done"
    /\ ssm_status' = ParamAfterGet(ssm_status)
    /\ UNCHANGED <<event, l_pc, up_idx, s3_keys, s3_input, put_failed, response, launched,
                   ssm_instance>>
    /\ UNCHANGED wrk_vars
    /\ UNCHANGED ext_vars

\* the statuses for which get_job_status fetches results.json
FetchesResults_always(st) == TRUE
FetchesResults(st) == st = "completed"

\* ssm get_parameter(instance_id) (lines 52-62).  describe_instances
\* (lines 64-77) reads no stored state of the job and its exceptions are
\* caught: it only adds the instance_* fields, which are left out of job_info.
GetInstanceParam ==
    /\ gs_pc = "instance"
    /\ \/ /\ job_info' = [job_info EXCEPT !.instance_id = ssm_instance]
          /\ gs_pc' = IF FetchesResults(job_info.status) THEN "results" ELSE "done"
       \/ /\ job_info' = ErrorInfo
          /\ gs_pc' = "done"
    /\ UNCHANGED <<gs_late, gs_fetch_failed>>
    /\ UNCHANGED <<event, l_pc, up_idx, s3_keys, s3_input, put_failed, response, launched,
                   ssm_status, ssm_instance>>
    /\ UNCHANGED wrk_vars
    /\ UNCHANGED ext_vars

\* what get_job_status returns when get_object or json.loads raised
\* (lines 87-89)
OnResultsError_propagate(info) == ErrorInfo
OnResultsError(info) == [info EXCEPT !.results_error = TRUE]

\* s3 get_object(results.json) and json.loads (lines 79-91), reached only
\* when the status read is completed
GetResults ==
    /\ gs_pc = "results"
    /\ \/ /\ s3_results.exists
          /\ job_info' = [job_info EXCEPT !.has_results = TRUE,
                                          !.results = s3_results.body]
          /\ UNCHANGED gs_fetch_failed
       \/ /\ job_info' = OnResultsError(job_info)
          /\ gs_fetch_failed' = TRUE
    /\ gs_pc' = "done"
    /\ UNCHANGED gs_late
    /\ UNCHANGED <<event, l_pc, up_idx, s3_keys, s3_input, put_failed, response, launched,
                   ssm_status, ssm_instance>>
    /\ UNCHANGED wrk_vars
    /\ UNCHANGED ext_vars

NextAdmission ==
    \/ Invoke
    \/ UploadImage
    \/ RunInstances
    \/ PutStatus
    \/ PutInstance

NextWorker ==
    \/ WorkerBoot
    \/ WorkerInit
    \/ ProcessImage
    \/ UploadResults
    \/ PyStatus
    \/ ShStatus

NextPoll ==
    \/ GetStatusParam
    \/ GetInstanceParam
    \/ GetResults

Next == NextAdmission \/ NextWorker \/ NextPoll

\* admission, worker and any number of status polls
Spec == Init /\ [][Next]_vars

NextJob == NextAdmission \/ NextWorker \/ WorkerKill

\* admission and a worker that may be killed, no status poll
SpecJob == Init /\ [][NextJob]_vars

\* --------------------------------------------------- list_recent_jobs
\* job ids are strings; the characters that tell them apart, as code points
JobIdPool == << <<1, 0>>, <<9>>, <<1, 0, 5>>, <<1>>, <<9, 9>> >>
JobIds == { JobIdPool[i] : i \in 1..MaxListJobs }

\* limit = event.get("limit", 10)
DefaultLimit == 10
Limits == (0..MaxLimit) \cup {DefaultLimit}

\* what the orchestrator and the worker leave in the store for one job
StoredJobs ==
    { [status |-> "processing", has_instance |-> FALSE],
      [status |-> "processing", has_instance |-> TRUE],
      [status |-> "completed", has_instance |-> TRUE] }
Stores == UNION { [S -> StoredJobs] : S \in SUBSET JobIds }

\* str < str of Python: the first differing character decides, a proper
\* prefix is the smaller
LexLess(a, b) ==
    \/ /\ Len(a) < Len(b)
       /\ \A k \in 1..Len(a) : a[k] = b[k]
    \/ \E k \in 1..Len(a) :
          /\ k <= Len(b)
          /\ a[k] < b[k]
          /\ \A j \in 1..(k - 1) : a[j] = b[j]

RECURSIVE SortDesc(_)
\* sorted(job_ids, reverse=True)
SortDesc(S) ==
    IF S = {} THEN <<>>
    ELSE LET top == CHOOSE x \in S : \A y \in S \ {x} : LexLess(y, x)
         IN  <<top>> \o SortDesc(S \ {top})

Take(sq, n) == IF Len(sq) <= n THEN sq ELSE SubSeq(sq, 1, n)

RECURSIVE Reverse(_)
Reverse(sq) == IF sq = <<>> THEN <<>> ELSE Reverse(Tail(sq)) \o <<Head(sq)>>

\* the names paginate yields for the prefix /divinepic/jobs/
ParamNames(store) ==
    { [job_id |-> j, leaf |-> "status"] : j \in DOMAIN store }
    \cup { [job_id |-> j, leaf |-> "instance_id"] :
             j \in { k \in DOMAIN store : store[k].has_instance } }

\* job_ids: the set filled from the names that contain '/status'
ScanJobIds(names) == { p.job_id : p \in { q \in names : q.leaf = "status" } }

SortedJobIds_oldest(S, limit) == Take(Reverse(SortDesc(S)), limit)
\* sorted_job_ids = sorted(job_ids, reverse=True)[:limit]
SortedJobIds(S, limit) == Take(SortDesc(S), limit)

\* get_job_status(job_id) as list_recent_jobs sees it: it returns a job_info
\* with the stored status, or, when a lookup raised, one with status "error"
ListJobInfos(store, j) ==
    { [job_id |-> j, status |-> store[j].status, error |-> FALSE],
      [job_id |-> j, status |-> "error", error |-> TRUE] }

ListStart ==
    /\ ls_store \in Stores
    /\ ls_limit \in Limits
    /\ ls_pc = "idle"
    /\ ls_ids = <<>>
    /\ ls_jobs = <<>>

InitList == JobVarsInit("off") /\ ListStart /\ SyncOff /\ MoreOff

\* the paginated scan, the sort and the slice; a failure of the scan is
\* caught by the outer except, which returns []
ListScan ==
    /\ ls_pc = "idle"
    /\ \/ /\ ls_ids' = SortedJobIds(ScanJobIds(ParamNames(ls_store)), ls_limit)
          /\ ls_pc' = IF ls_ids' = <<>> THEN "done" ELSE "lookup"
       \/ /\ ls_ids' = <<>>
          /\ ls_pc' = "failed"
    /\ UNCHANGED <<ls_store, ls_limit, ls_jobs>>
    /\ UNCHANGED <<job_vars, sync_vars, more_vars>>

\* one turn of "for job_id in sorted_job_ids", and the return after the last
ListGetJobStatus ==
    /\ ls_pc = "lookup"
    /\ Len(ls_jobs) < Len(ls_ids)
    /\ \E info \in ListJobInfos(ls_store, ls_ids[Len(ls_jobs) + 1]) :
          ls_jobs' = Append(ls_jobs, info)
    /\ ls_pc' = IF Len(ls_jobs') = Len(ls_ids) THEN "done" ELSE "lookup"
    /\ UNCHANGED <<ls_store, ls_limit, ls_ids>>
    /\ UNCHANGED <<job_vars, sync_vars, more_vars>>

NextList == ListScan \/ ListGetJobStatus

\* one list request over a store that does not change meanwhile
SpecList == InitList /\ [][NextList]_vars

InitReads == Init \/ InitList

NextReads == Next \/ NextList

\* the two read operations: status polls beside admission and worker, or a
\* list request
SpecReads == InitReads /\ [][NextReads]_vars

\* ------------------------------------- lambda_handler.py (synchronous)
SyOkFields == {"filename", "s3_url", "faces_detected", "faces_indexed", "faces"}
SyUndecodableFields == {"filename", "s3_url", "faces_detected", "error"}
SyErrFields == {"filename", "error", "faces_detected"}

SyncOk_indexerror(filename, n, indexed) ==
    [filename |-> filename,
     fields |-> IF Len(indexed) < n THEN SyOkFields \cup {"error"} ELSE SyOkFields,
     error |-> IF Len(indexed) < n THEN "exception" ELSE "none",
     faces_detected |-> n, faces_indexed |-> Len(indexed), faces |-> indexed]
\* the record process_single_image returns after the face loop (lines 161-167)
SyncOk(filename, n, indexed) ==
    [filename |-> filename, fields |-> SyOkFields, error |-> "none",
     faces_detected |-> n, faces_indexed |-> Len(indexed), faces |-> indexed]

SyncUndecodable_zerofaces(filename) == SyncOk(filename, 0, <<>>)
\* the record returned when cv2.imdecode gave None (lines 119-125)
SyncUndecodable(filename) ==
    [filename |-> filename, fields |-> SyUndecodableFields,
     error |-> "Could not decode image",
     faces_detected |-> 0, faces_indexed |-> 0, faces |-> <<>>]

\* the record of the except block of process_single_image (lines 169-175):
\* the upload, the model or the detection raised
SyncError(filename) ==
    [filename |-> filename, fields |-> SyErrFields, error |-> "exception",
     faces_detected |-> 0, faces_indexed |-> 0, faces |-> <<>>]

\* the record of the except block of the loop in lambda_handler (lines
\* 262-268): base64.b64decode or img_data["data"] raised
SyncB64Error(filename) ==
    [filename |-> filename, fields |-> SyErrFields, error |-> "Failed to decode image",
     faces_detected |-> 0, faces_indexed |-> 0, faces |-> <<>>]

\* r.get("faces_indexed", 0), r.get("faces_detected", 0), "error" in r
FacesIndexedOf(r) == IF "faces_indexed" \in r.fields THEN r.faces_indexed ELSE 0
FacesDetectedOf(r) == IF "faces_detected" \in r.fields THEN r.faces_detected ELSE 0
HasError(r) == "error" \in r.fields
\* the list of indexed faces a consumer finds in a record
FacesOf(r) == IF "faces" \in r.fields THEN r.faces ELSE <<>>

RECURSIVE SumOver(_, _)
\* sum(f(r) for r in results), f the name of a count
SumOver(res, f) ==
    IF res = <<>> THEN 0
    ELSE (CASE f = "faces_detected" -> FacesDetectedOf(Head(res))
            [] f = "faces_indexed" -> FacesIndexedOf(Head(res))
            [] f = "error" -> IF HasError(Head(res)) THEN 1 ELSE 0)
         + SumOver(Tail(res), f)

SyncSummary_okonly(res) ==
    [kind |-> "processed", total_images |-> Len(res) - SumOver(res, "error"),
     total_faces_detected |-> SumOver(res, "faces_detected"),
     total_faces_indexed |-> SumOver(res, "faces_indexed"),
     errors |-> SumOver(res, "error"), results |-> res]
\* the response of lines 271-285
SyncSummary(res) ==
    [kind |-> "processed", total_images |-> Len(res),
     total_faces_detected |-> SumOver(res, "faces_detected"),
     total_faces_indexed |-> SumOver(res, "faces_indexed"),
     errors |-> SumOver(res, "error"), results |-> res]

\* {"error": error_msg} of line 252: no 'images' in the event
SyncInvalid == [SyncNoResponse EXCEPT !.kind = "invalid"]
\* the error_response of the outer except (lines 299-313)
SyncFailed == [SyncNoResponse EXCEPT !.kind = "failed"]

SyncStart == SyncVarsInit("idle")

InitSync == JobVarsInit("off") /\ ListOff /\ SyncStart /\ MoreOff

\* a direct invocation: the event is looked at (lines 236-252)
SyncInvoke ==
    /\ sy_pc = "idle"
    /\ \E ev \in Events :
          /\ sy_event' = ev
          /\ IF ev.has_images
             THEN /\ sy_pc' = "loop"
                  /\ UNCHANGED sy_response
             ELSE /\ sy_pc' = "returned"
                  /\ sy_response' = SyncInvalid
    /\ UNCHANGED <<sy_idx, sy_results, sy_docs, sy_tried, sy_truth>>
    /\ UNCHANGED <<job_vars, list_vars, more_vars>>

\* one iteration of "for img_data in images" (lines 256-268), with the call
\* of process_single_image (lines 109-175)
SyncProcessImage ==
    /\ sy_pc = "loop"
    /\ sy_idx < Len(sy_event.images)
    /\ LET i == sy_idx + 1
           img_data == sy_event.images[i]
           filename == img_data.filename
       IN  IF ~img_data.has_filename
           THEN \* img_data["filename"] raises outside the inner try
                /\ sy_pc' = "returned"
                /\ sy_response' = SyncFailed
                /\ UNCHANGED <<sy_idx, sy_results, sy_docs, sy_tried, sy_truth>>
           ELSE /\ sy_idx' = i
                /\ UNCHANGED <<sy_pc, sy_response>>
                /\ \/ /\ img_data.data = "bad_b64"
                      /\ sy_results' = Append(sy_results, SyncB64Error(filename))
                      /\ sy_truth' = Append(sy_truth, [outcome |-> "b64", faces |-> 0])
                      /\ UNCHANGED <<sy_docs, sy_tried>>
                   \/ /\ img_data.data = "ok"
                      /\ \E why \in {"upload", "detect"} :
                            /\ sy_results' = Append(sy_results, SyncError(filename))
                            /\ sy_truth' = Append(sy_truth, [outcome |-> why, faces |-> 0])
                      /\ UNCHANGED <<sy_docs, sy_tried>>
                   \/ /\ img_data.data = "ok"
                      /\ sy_results' = Append(sy_results, SyncUndecodable(filename))
                      /\ sy_truth' = Append(sy_truth, [outcome |-> "decode", faces |-> 0])
                      /\ UNCHANGED <<sy_docs, sy_tried>>
                   \/ /\ img_data.data = "ok"
                      /\ \E n \in 0..MaxSyncFaces : \E wr \in SubSeqs(n) :
                            LET fl == IndexFaces(n, wr)
                            IN  /\ sy_results' = Append(sy_results, SyncOk(filename, n, fl.indexed))
                                /\ sy_truth' = Append(sy_truth, [outcome |-> "ok", faces |-> n])
                                /\ sy_tried' = sy_tried \cup { <<i, k>> : k \in fl.tried }
                                /\ sy_docs' = sy_docs
                                     \cup { <<i, fl.indexed[k]>> : k \in 1..Len(fl.indexed) }
    /\ UNCHANGED sy_event
    /\ UNCHANGED <<job_vars, list_vars, more_vars>>

\* the summary and the return after the loop (lines 271-297)
SyncReturn ==
    /\ sy_pc = "loop"
    /\ sy_idx = Len(sy_event.images)
    /\ sy_pc' = "returned"
    /\ sy_response' = SyncSummary(sy_results)
    /\ UNCHANGED <<sy_event, sy_idx, sy_results, sy_docs, sy_tried, sy_truth>>
    /\ UNCHANGED <<job_vars, list_vars, more_vars>>

NextSync == SyncInvoke \/ SyncProcessImage \/ SyncReturn

InitFlows == Init \/ InitSync

NextFlows == NextJob \/ NextSync

\* a run is one batch job (admission, worker, kill) or one synchronous request
SpecFlows == InitFlows /\ [][NextFlows]_vars

\* ------------------------------------------------------------- dump.py
\* ES_HOSTS has two entries
NumHosts == 2
Hosts == 1..NumHosts
DumpProcs == 1..MaxDumpProcs

\* what a process has seen of a host in create_index_on_both: nothing yet,
\* exists() true, create() returned, create() rejected because the index
\* exists (resource_already_exists_exception), or a call that failed otherwise
SeenKinds == {"none", "exists", "created", "already_exists", "unreachable"}

\* a process at the first line of main, with n images in INPUT_DIR
DumpAtMain(n) ==
    [pc |-> "check", host |-> 1, seen |-> [h \in Hosts |-> "none"],
     files |-> n, img |-> 0, nfaces |-> 0, face |-> 0, found |-> <<>>,
     up |-> FALSE, put |-> <<>>]
\* a process that is not started
DumpNotRun == [DumpAtMain(0) EXCEPT !.pc = "off"]

\* "for client, host in es_clients" of create_index_on_both: the next host,
\* or setup_face_model after the last
AfterHost(d, what) ==
    IF d.host < NumHosts
    THEN [d EXCEPT !.seen[d.host] = what, !.pc = "check", !.host = d.host + 1]
    ELSE [d EXCEPT !.seen[d.host] = what, !.pc = "model", !.host = 1]

OnExists_always(exists) == "create"
\* if client.indices.exists(...): log, else: create
OnExists(exists) == IF exists THEN "skip" ELSE "create"

\* client.indices.exists for the current host (line 96); an exception is
\* caught at line 102 and the loop goes on
DumpCheckIndex(p) ==
    /\ dp[p].pc = "check"
    /\ \/ IF OnExists(ix_exists[dp[p].host]) = "skip"
          THEN dp' = [dp EXCEPT ![p] = AfterHost(dp[p], "exists")]
          ELSE dp' = [dp EXCEPT ![p].pc = "create"]
       \/ dp' = [dp EXCEPT ![p] = AfterHost(dp[p], "unreachable")]
    /\ UNCHANGED <<ix_exists, ix_calls, dp_tried, dp_failed>>
    /\ UNCHANGED dump_rest

\* client.indices.create for the current host (line 100): the host creates
\* the index, or rejects the request because the index exists by now; every
\* exception is caught at line 102
DumpCreateIndex(p) ==
    /\ dp[p].pc = "create"
    /\ LET h == dp[p].host
       IN  \/ /\ ix_calls' = [ix_calls EXCEPT ![h] = @ + 1]
              /\ ix_exists' = [ix_exists EXCEPT ![h] = TRUE]
              /\ dp' = [dp EXCEPT ![p] = AfterHost(dp[p],
                            IF ix_exists[h] THEN "already_exists" ELSE "created")]
           \/ /\ dp' = [dp EXCEPT ![p] = AfterHost(dp[p], "unreachable")]
              /\ UNCHANGED <<ix_exists, ix_calls>>
    /\ UNCHANGED <<dp_tried, dp_failed>>
    /\ UNCHANGED dump_rest

\* setup_face_model and the listing of INPUT_DIR (lines 243-253): main
\* returns when the model is None or there is no image
DumpSetup(p) ==
    /\ dp[p].pc = "model"
    /\ \/ dp' = [dp EXCEPT ![p].pc = "done"]
       \/ dp' = [dp EXCEPT ![p].pc = IF dp[p].files = 0 THEN "done" ELSE "image"]
    /\ UNCHANGED <<ix_exists, ix_calls, dp_tried, dp_failed>>
    /\ UNCHANGED dump_rest

\* the process after its current image: the next image, or the end of main;
\* put keeps, per image, whether upload_image_flat stored it
AfterImage(d, n) ==
    [d EXCEPT !.found = Append(d.found, n), !.put = Append(d.put, d.up), !.img = d.img + 1,
              !.pc = IF d.img + 1 = d.files THEN "done" ELSE "image"]

OnUploadError_continue == "continue"
\* what process_and_index_image does when upload_image_flat raised (lines
\* 189-191)
OnUploadError == "return"

\* process_and_index_image up to the face loop (lines 186-208): the upload
\* stores the object or raises; the image is left (the upload or the read
\* fails, detection raises into the except of main, or no face is found), or
\* n faces are found
DumpStartImage(p) ==
    /\ dp[p].pc = "image"
    /\ \E up \in BOOLEAN :
          LET d == [dp[p] EXCEPT !.up = up]
          IN  IF ~up /\ OnUploadError = "return"
              THEN dp' = [dp EXCEPT ![p] = AfterImage(d, 0)]
              ELSE \/ dp' = [dp EXCEPT ![p] = AfterImage(d, 0)]
                   \/ \E n \in 1..MaxDumpFaces :
                         dp' = [dp EXCEPT ![p] = [d EXCEPT !.pc = "face", !.nfaces = n,
                                                           !.face = 1, !.host = 1]]
    /\ UNCHANGED <<ix_exists, ix_calls, dp_tried, dp_failed>>
    /\ UNCHANGED dump_rest

AfterIndex_break(ok, h, f, n) ==
    IF h < NumHosts /\ ok THEN [host |-> h + 1, face |-> f, more |-> TRUE]
    ELSE IF f < n THEN [host |-> 1, face |-> f + 1, more |-> TRUE]
    ELSE [host |-> h, face |-> f, more |-> FALSE]
\* where the loops of lines 211-231 go after client.index for face f on
\* host h returned (ok) or raised: the next host, the next face, or out
AfterIndex(ok, h, f, n) ==
    IF h < NumHosts THEN [host |-> h + 1, face |-> f, more |-> TRUE]
    ELSE IF f < n THEN [host |-> 1, face |-> f + 1, more |-> TRUE]
    ELSE [host |-> h, face |-> f, more |-> FALSE]

\* one client.index call of the loops over faces and es_clients (line 228)
DumpIndexFace(p) ==
    /\ dp[p].pc = "face"
    /\ LET d == dp[p]
           call == <<p, d.img + 1, d.face, d.host>>
       IN  /\ dp_tried' = dp_tried \cup {call}
           /\ \E ok \in BOOLEAN :
                 LET to == AfterIndex(ok, d.host, d.face, d.nfaces)
                 IN  /\ dp_failed' = IF ~ok /\ dp_failed = <<>> THEN call ELSE dp_failed
                     /\ dp' = [dp EXCEPT ![p] =
                                  IF to.more
                                  THEN [d EXCEPT !.host = to.host, !.face = to.face]
                                  ELSE AfterImage(d, d.nfaces)]
    /\ UNCHANGED <<ix_exists, ix_calls>>
    /\ UNCHANGED dump_rest

\* the hosts before any dump.py process has touched them
HostsStart ==
    /\ ix_exists \in [Hosts -> BOOLEAN]
    /\ ix_calls = [h \in Hosts |-> 0]
    /\ dp_tried = {}
    /\ dp_failed = <<>>

\* several processes start, none of which has an image to process
InitCreate ==
    /\ DumpRestOff
    /\ HostsStart
    /\ dp = [p \in DumpProcs |-> DumpAtMain(0)]

NextCreate == \E p \in DumpProcs : DumpCheckIndex(p) \/ DumpCreateIndex(p) \/ DumpSetup(p)

\* create_index_on_both run by concurrent processes
SpecCreate == InitCreate /\ [][NextCreate]_vars

\* one process runs main over the images of INPUT_DIR
InitDump ==
    /\ DumpRestOff
    /\ HostsStart
    /\ \E n \in 0..MaxDumpImages :
          dp = [p \in DumpProcs |-> IF p = 1 THEN DumpAtMain(n) ELSE DumpNotRun]

NextDump ==
    \E p \in DumpProcs :
       \/ DumpCheckIndex(p)
       \/ DumpCreateIndex(p)
       \/ DumpSetup(p)
       \/ DumpStartImage(p)
       \/ DumpIndexFace(p)

SpecDump == InitDump /\ [][NextDump]_vars

InitUploads == Init \/ InitSync \/ InitDump

NextUploads == NextJob \/ NextSync \/ (dp # <<>> /\ NextDump)

\* a run is one batch job, one synchronous request or one run of dump.py
SpecUploads == InitUploads /\ [][NextUploads]_vars

\* ------------------------------------------ get_face_model (lambda_handler.py)
MaxCallers == 2
MaxCalls == 2
Callers == 1..MaxCallers

\* a thread outside get_face_model
CallerIdle == [pc |-> "idle", calls |-> 0, got |-> <<>>]

\* a caller enters get_face_model
FmCall(t) ==
    /\ fm_th[t].pc = "idle"
    /\ fm_th[t].calls < MaxCalls
    /\ fm_th' = [fm_th EXCEPT ![t].pc = "check", ![t].calls = @ + 1]
    /\ UNCHANGED <<fm_app, fm_made>>
    /\ UNCHANGED model_rest

\* if face_app is None (line 53)
FmCheck(t) ==
    /\ fm_th[t].pc = "check"
    /\ fm_th' = [fm_th EXCEPT ![t].pc = IF fm_app = 0 THEN "construct" ELSE "return"]
    /\ UNCHANGED <<fm_app, fm_made>>
    /\ UNCHANGED model_rest

\* face_app = FaceAnalysis(...) (lines 59-62): a new instance is bound to
\* the global, or the constructor raises and the call ends in the except
FmConstruct(t) ==
    /\ fm_th[t].pc = "construct"
    /\ \/ /\ fm_made' = fm_made + 1
          /\ fm_app' = fm_made + 1
          /\ fm_th' = [fm_th EXCEPT ![t].pc = "prepare"]
       \/ /\ fm_th' = [fm_th EXCEPT ![t].pc = "idle"]
          /\ UNCHANGED <<fm_app, fm_made>>
    /\ UNCHANGED model_rest

\* face_app.prepare(...) (line 63); when it raises the call ends in the
\* except and the global keeps the instance
FmPrepare(t) ==
    /\ fm_th[t].pc = "prepare"
    /\ \/ fm_th' = [fm_th EXCEPT ![t].pc = "return"]
       \/ fm_th' = [fm_th EXCEPT ![t].pc = "idle"]
    /\ UNCHANGED <<fm_app, fm_made>>
    /\ UNCHANGED model_rest

\* return face_app (line 69)
FmReturn(t) ==
    /\ fm_th[t].pc = "return"
    /\ fm_th' = [fm_th EXCEPT ![t].pc = "idle", ![t].got = Append(@, fm_app)]
    /\ UNCHANGED <<fm_app, fm_made>>
    /\ UNCHANGED model_rest

\* a process at start: face_app = None (line 28)
InitModel ==
    /\ ModelRestOff
    /\ fm_app = 0
    /\ fm_made = 0
    /\ fm_th = [t \in Callers |-> CallerIdle]

NextModel ==
    \E t \in Callers : FmCall(t) \/ FmCheck(t) \/ FmConstruct(t) \/ FmPrepare(t) \/ FmReturn(t)

\* the calls of get_face_model made by the threads of one process
SpecModel == InitModel /\ [][NextModel]_vars

\* ------------------------------------------- face_id and es_client.index
\* runs of the same image, faces found in it, values of uuid4().hex[:8]
MaxRuns == 2
MaxIxFaces == 2
MaxSuffixes == 2
Suffixes == 1..MaxSuffixes
\* the s3 url of a run (it carries a random part in lambda_handler.py)
Urls == {"u1", "u2"}
\* Path(filename).stem of the image that is processed again
IxStem == "a"

\* face_id = f"{stem}_face_{idx+1}_{uuid.uuid4().hex[:8]}"
FaceId(stem, pos, suffix) == <<stem, "_face_", pos, "_", suffix>>

\* doc = {"image_name": s3_url, "embeds": ..., "box": ...}: the embedding and
\* the box are those of the face at this position of the image
FaceDoc(url, stem, pos) == [image_name |-> url, face |-> <<stem, pos>>]

\* the documents of a bag that have another id
OtherIds(docs, id) ==
    LET keep == { d \in DOMAIN docs : d.id # id }
    IN  [d \in keep |-> docs[d]]

EsIndex_append(docs, id, body) == docs (+) SetToBag({[id |-> id, body |-> body]})
\* es_client.index(index=INDEX_NAME, id=face_id, document=doc): the host
\* stores the document under the id given, in place of the one it had
EsIndex(docs, id, body) == OtherIds(docs, id) (+) SetToBag({[id |-> id, body |-> body]})

\* the number of documents of a bag that have this id
CountId(docs, id) ==
    LET same == { d \in DOMAIN docs : d.id = id }
    IN  BagCardinality([d \in same |-> docs[d]])

NoRun == [r |-> 0, pos |-> 0, n |-> 0, url |-> "none"]
NoWrite == [k |-> 0, id |-> <<>>, body |-> <<>>, ok |-> FALSE, had |-> FALSE, same |-> FALSE]

InitIndex ==
    /\ IndexRestOff
    /\ ix_docs = EmptyBag
    /\ ix_run = NoRun
    /\ ix_last = NoWrite

\* the image is submitted (again): it is uploaded and n faces are detected
IxStartRun ==
    /\ ix_run.pos = ix_run.n
    /\ ix_run.r < MaxRuns
    /\ \E n \in 1..MaxIxFaces : \E url \in Urls :
          ix_run' = [r |-> ix_run.r + 1, pos |-> 0, n |-> n, url |-> url]
    /\ UNCHANGED <<ix_docs, ix_last>>
    /\ UNCHANGED index_rest

\* one turn of the loop over faces: a face_id with a fresh random suffix,
\* and the index call, which succeeds or raises into the inner except
IxIndexFace ==
    /\ ix_run.pos < ix_run.n
    /\ \E suffix \in Suffixes : \E ok \in BOOLEAN :
          LET pos == ix_run.pos + 1
              id == FaceId(IxStem, pos, suffix)
              body == FaceDoc(ix_run.url, IxStem, pos)
          IN  /\ ix_docs' = IF ok THEN EsIndex(ix_docs, id, body) ELSE ix_docs
              /\ ix_last' = [k |-> ix_last.k + 1, id |-> id, body |-> body, ok |-> ok,
                             had |-> CountId(ix_docs, id) > 0,
                             same |-> BagIn([id |-> id, body |-> body], ix_docs)]
              /\ ix_run' = [ix_run EXCEPT !.pos = pos]
    /\ UNCHANGED index_rest

NextIndex == IxStartRun \/ IxIndexFace

\* one image processed up to MaxRuns times against one host
SpecIndex == InitIndex /\ [][NextIndex]_vars

\* ------------------------------------------- extract_date_from_filename
\* filenames are strings over a letter, a digit and the separator
MaxNameLen == 4
NameChars == {"a", "1", "_"}
Names == UNION { [1..n -> NameChars] : n \in 1..MaxNameLen }

MsPerDay == 86400000
\* the clock at the time of the call
Nows == {MsPerDay, 2 * MsPerDay}

RECURSIVE SplitName(_)
\* filename.split("_")
SplitName(fn) ==
    IF fn = <<>> THEN << <<>> >>
    ELSE LET rest == SplitName(Tail(fn))
         IN  IF Head(fn) = "_" THEN << <<>> >> \o rest
             ELSE << <<Head(fn)>> \o Head(rest) >> \o Tail(rest)

\* int(s) returns for a non-empty string of digits and raises ValueError for
\* the other strings over NameChars
IsInt(seg) == seg # <<>> /\ \A k \in 1..Len(seg) : seg[k] = "1"

RECURSIVE IntOf(_)
IntOf(seg) == IF seg = <<>> THEN 0 ELSE 10 * IntOf(SubSeq(seg, 1, Len(seg) - 1)) + 1

\* strftime("%d_%b_%Y") of ms / 1000.0 in UTC: the day the instant falls in
DateTag(ms) == [ok |-> TRUE, day |-> ms \div MsPerDay]
\* the call raised ValueError
DateError == [ok |-> FALSE, day |-> 0]

\* extract_date_from_filename of dump.py (lines 147-160)
ExtractDateStrict(fn) ==
    LET parts == SplitName(fn)
    IN  IF Len(parts) < 2 THEN DateError
        ELSE IF ~IsInt(parts[2]) THEN DateError
        ELSE DateTag(IntOf(parts[2]))

ExtractDateLenient_raise(fn, now) == ExtractDateStrict(fn)
\* extract_date_from_filename of lambda_handler.py (lines 71-85)
ExtractDateLenient(fn, now) ==
    LET parts == SplitName(fn)
    IN  IF Len(parts) < 2 THEN DateTag(now)
        ELSE IF IsInt(parts[2]) THEN DateTag(IntOf(parts[2]))
        ELSE DateTag(now)

\* an upload that is not called yet
NoUpload == [done |-> FALSE, date |-> DateError, put_called |-> FALSE, stored |-> FALSE]

InitDate ==
    /\ DateRestOff
    /\ dt_name \in Names
    /\ dt_now \in Nows
    /\ dt_strict = NoUpload
    /\ dt_lenient = NoUpload

\* the date tag is derived; put_object is called when that did not raise,
\* and stores the object or raises
UploadWith(date) ==
    IF date.ok
    THEN { [done |-> TRUE, date |-> date, put_called |-> TRUE, stored |-> st] :
             st \in BOOLEAN }
    ELSE { [done |-> TRUE, date |-> date, put_called |-> FALSE, stored |-> FALSE] }

\* upload_image_flat of dump.py (lines 162-182)
UploadImageFlat ==
    /\ ~dt_strict.done
    /\ dt_strict' \in UploadWith(ExtractDateStrict(dt_name))
    /\ UNCHANGED <<dt_name, dt_now, dt_lenient>>
    /\ UNCHANGED date_rest

\* upload_image_to_s3 of lambda_handler.py (lines 87-107)
UploadImageToS3 ==
    /\ ~dt_lenient.done
    /\ dt_lenient' \in UploadWith(ExtractDateLenient(dt_name, dt_now))
    /\ UNCHANGED <<dt_name, dt_now, dt_strict>>
    /\ UNCHANGED date_rest

NextDate == UploadImageFlat \/ UploadImageToS3

\* one filename given to both uploads
SpecDate == InitDate /\ [][NextDate]_vars

\* --------------------------------------- job_id over time, and the listing
\* seconds the clock advances, jobs admitted
MaxTicks == 3
MaxAdmits == 3
\* int(time.time()) at the first admission and after each tick
EpochSeconds == { 999999998 + k : k \in 0..MaxTicks }

\* the code point of a decimal digit
RECURSIVE DigitCodes(_)
\* str(n) of a natural number, as code points
DigitCodes(n) == IF n < 10 THEN <<48 + n>>
                 ELSE DigitCodes(n \div 10) \o <<48 + (n % 10)>>

\* uuid.uuid4().hex[:8]: eight hexadecimal digits, here all "0" or all "f"
HexSuffixes == { [i \in 1..8 |-> 48], [i \in 1..8 |-> 102] }

\* job_id = f"job_{int(time.time())}_{uuid.uuid4().hex[:8]}"
JobId(t, suffix) == <<106, 111, 98, 95>> \o DigitCodes(t) \o <<95>> \o suffix

\* the store and the clock before the first admission
InitAdmit ==
    /\ JobVarsInit("off") /\ SyncOff /\ DumpOff /\ ModelOff /\ IndexOff /\ DateOff /\ FidOff
    /\ ls_store = <<>>
    /\ ls_limit \in Limits
    /\ ls_pc = "idle"
    /\ ls_ids = <<>>
    /\ ls_jobs = <<>>
    /\ adm = [now |-> 999999998, born |-> <<>>]

\* the clock reaches the next second
AdmitTick ==
    /\ ls_pc = "idle"
    /\ adm.now + 1 \in EpochSeconds
    /\ adm' = [adm EXCEPT !.now = adm.now + 1]
    /\ UNCHANGED list_vars
    /\ UNCHANGED <<job_vars, sync_vars, dump_vars, model_vars, index_vars, date_vars, fid_vars>>

\* a submission that returns 200: the job_id is generated from the clock
\* (line 361) and launch_gpu_instance stores both parameters under it
AdmitJob ==
    /\ ls_pc = "idle"
    /\ Cardinality(DOMAIN ls_store) < MaxAdmits
    /\ \E suffix \in HexSuffixes :
          LET id == JobId(adm.now, suffix)
              rec == [status |-> "processing", has_instance |-> TRUE]
          IN  /\ ls_store' = [j \in DOMAIN ls_store \cup {id} |->
                                 IF j = id THEN rec ELSE ls_store[j]]
              /\ adm' = [adm EXCEPT !.born = [j \in DOMAIN adm.born \cup {id} |->
                                                IF j = id THEN adm.now ELSE adm.born[j]]]
    /\ UNCHANGED <<ls_limit, ls_pc, ls_ids, ls_jobs>>
    /\ UNCHANGED <<job_vars, sync_vars, dump_vars, model_vars, index_vars, date_vars, fid_vars>>

NextAdmit == AdmitTick \/ AdmitJob \/ ListScan \/ ListGetJobStatus

\* jobs admitted as the clock advances, then one list request
SpecAdmit == InitAdmit /\ [][NextAdmit]_vars

\* ------------------------------------------- face ids within one worker run
\* submitted filenames: strings over a letter, the path separator and the dot
MaxFidNameLen == 2
FidChars == {"a", "/", "."}
FidNames == UNION { [1..n -> FidChars] : n \in 1..MaxFidNameLen }

RECURSIVE SplitPath(_)
\* the text of a path split at "/"
SplitPath(s) ==
    IF s = <<>> THEN << <<>> >>
    ELSE LET rest == SplitPath(Tail(s))
         IN  IF Head(s) = "/" THEN << <<>> >> \o rest
             ELSE << <<Head(s)>> \o Head(rest) >> \o Tail(rest)

\* Path(s3_key).name for a key whose text after "jobs/{job_id}/input/" is
\* tail: pathlib drops empty and "." components; the last one left is the name
\* (the first component of tail begins with the index and is never dropped)
PathName(tail) ==
    LET parts == SplitPath(tail)
        kept == SelectSeq(parts, LAMBDA c : c # <<>> /\ c # <<".">>)
    IN  kept[Len(kept)]

\* Path.stem: the name up to its last dot, when that dot is neither the
\* first nor the last character
PathStem(tail) ==
    LET name == PathName(tail)
        dots == { i \in 1..Len(name) : name[i] = "." }
        last == CHOOSE i \in dots : \A j \in dots : j <= i
    IN  IF dots = {} THEN name
        ELSE IF last > 1 /\ last < Len(name) THEN SubSeq(name, 1, last - 1)
        ELSE name

\* the text of a key after the prefix of its job
KeyTail(key) == Tail(key)

\* the worker before its loop, with the keys upload_images_to_s3 returned
\* for the filenames submitted
FidStart(names) ==
    [keys |-> [i \in 1..Len(names) |-> S3Key(i - 1, names[i])],
     img |-> 0, pos |-> 0, n |-> 0, ids |-> {}]

InitFid ==
    /\ JobVarsInit("off") /\ ListOff /\ SyncOff
    /\ DumpOff /\ ModelOff /\ IndexOff /\ DateOff /\ AdmitOff
    /\ \E names \in SeqsUpTo(FidNames, MaxImages) :
          /\ names # <<>>
          /\ fid = FidStart(names)

\* "for s3_key in S3_KEYS" up to the face loop (lines 153-176): n faces are
\* detected (none when the image fails)
FidNextImage ==
    /\ fid.pos = fid.n
    /\ fid.img < Len(fid.keys)
    /\ \E n \in 0..MaxIxFaces :
          fid' = [fid EXCEPT !.img = fid.img + 1, !.pos = 0, !.n = n]
    /\ UNCHANGED <<job_vars, list_vars, sync_vars, dump_vars, model_vars, index_vars,
                   date_vars, admit_vars>>

\* one turn of "for idx, face in enumerate(faces)" (lines 178-198): the
\* face_id is built from the stem of the key, the position and a random suffix
FidIndexFace ==
    /\ fid.pos < fid.n
    /\ \E suffix \in Suffixes :
          LET pos == fid.pos + 1
              id == FaceId(PathStem(KeyTail(fid.keys[fid.img])), pos, suffix)
          IN  fid' = [fid EXCEPT !.pos = pos,
                                 !.ids = fid.ids \cup {[img |-> fid.img, pos |-> pos, id |-> id]}]
    /\ UNCHANGED <<job_vars, list_vars, sync_vars, dump_vars, model_vars, index_vars,
                   date_vars, admit_vars>>

NextFid == FidNextImage \/ FidIndexFace

\* one run of process_job over the keys of one submission
SpecFid == InitFid /\ [][NextFid]_vars

\* the writers whose code runs the index create-if-absent before the first
\* write: main of dump.py calls create_index_on_both; process_job of the
\* worker script and lambda_handler.py call neither indices.exists nor
\* indices.create
EnsuresIndex == {"dump"}

\* ------------------------------------------------------------------ claims
TerminalStatuses == {"completed", "error"}

\* C1: once the stored status of the job is completed or error, no write
\* (of launch_gpu_instance or of the worker) replaces it by another value.
C1_TerminalStatusFinal ==
    [][(ssm_status \in TerminalStatuses) => (ssm_status' = ssm_status)]_vars

\* C2: when run_instances raised during submit, the stored status of the
\* job after submit has returned is error.
C2_LaunchFailureStoresError ==
    (l_pc = "returned" /\ response.cause = "failed_launch") => ssm_status = "error"

\* C3: a submission whose images field is missing or empty gets a 400
\* response with an error body, and nothing is written to the object store,
\* no instance is launched and no parameter is written for it.
C3_InvalidInputRejected ==
    (l_pc # "idle" /\ (~event.has_images \/ event.images = <<>>)) =>
        /\ l_pc = "returned"
        /\ response.statusCode = 400
        /\ response.error
        /\ s3_input = {}
        /\ launched = 0
        /\ w_pc = "off"
        /\ ssm_status = "none"
        /\ ssm_instance = "none"

C3_Witness ==
    /\ l_pc = "returned"
    /\ event.has_images
    /\ event.images = <<>>
    /\ response.statusCode = 400

\* C4: when the upload of one image of the submission has failed, no worker
\* is launched, neither the status nor the instance parameter is written,
\* and submit returns an error.
C4_UploadFailureAborts ==
    put_failed =>
        /\ launched = 0
        /\ w_pc = "off"
        /\ ssm_status = "none"
        /\ ssm_instance = "none"
        /\ l_pc = "returned"
        /\ response.statusCode = 500
        /\ response.error

C4_Witness ==
    /\ put_failed
    /\ up_idx = 1
    /\ Len(event.images) = 2
    /\ l_pc = "returned"

Range(f) == { f[i] : i \in DOMAIN f }

\* upload_images_to_s3 has returned: every image of a valid submission was
\* put without failure
UploadsSucceeded ==
    /\ l_pc \notin {"idle", "upload"}
    /\ ValidateInput(event) = "ok"
    /\ ~put_failed
    /\ up_idx = Len(event.images)

\* C5: after a submission of N images whose uploads all succeeded, exactly
\* N objects lie under the input prefix of the job, the returned list holds
\* the key of the i-th image at position i, and its keys are pairwise
\* distinct whatever the filenames.
C5_DistinctOrderedKeys ==
    UploadsSucceeded =>
        LET n == Len(event.images)
        IN  /\ Len(s3_keys) = n
            /\ Cardinality(s3_input) = n
            /\ s3_input = Range(s3_keys)
            /\ \A i, j \in 1..n : i # j => s3_keys[i] # s3_keys[j]
            /\ \A i \in 1..n :
                  s3_keys[i] = JobPrefix \o Pad3(i - 1) \o <<"_">> \o event.images[i].filename

C5_Witness ==
    /\ UploadsSucceeded
    /\ Len(event.images) = 2
    /\ event.images[1].filename = event.images[2].filename
    /\ Cardinality(s3_input) = 2

\* C6: a get_job_status call that began after submit returned success
\* reports processing, completed or error, never queued or unknown.
C6_NoQueuedAfterSuccess ==
    (gs_pc = "done" /\ gs_late) =>
        job_info.status \in {"processing", "completed", "error"}

C6_Witness ==
    /\ gs_pc = "done"
    /\ gs_late
    /\ job_info.status = "processing"
    /\ ~job_info.error

\* C7: at the moment launch_gpu_instance requests the worker (run_instances),
\* the stored status of the job is queued.
C7_QueuedBeforeLaunch ==
    l_pc = "run_instances" => ssm_status = "queued"

\* C8: whenever the stored status is completed, or the worker has written
\* completed, results.json has been written.
C8_CompletedImpliesResults ==
    (ssm_status = "completed" \/ term_writes > 0) => s3_results.exists

C8_Witness ==
    /\ ssm_status = "completed"
    /\ s3_results.exists
    /\ w_pc = "done"

\* C9: the worker writes a terminal status exactly once per job (never
\* twice, and once when it has run to its end), and only after it has
\* processed every input and uploaded results.json.
C9_OneTerminalWrite ==
    /\ term_writes <= 1
    /\ (w_pc = "done") => (term_writes = 1)
    /\ (term_writes >= 1) => (w_idx = Len(s3_keys) /\ s3_results.exists)

\* C10: results.json of a job with N input images holds exactly N entries,
\* the i-th for the i-th submitted image, whichever images failed.
C10_OneResultPerImage ==
    s3_results.exists =>
        /\ Len(s3_results.body) = Len(event.images)
        /\ \A i \in 1..Len(event.images) :
              s3_results.body[i].s3_key = S3Key(i - 1, event.images[i].filename)

C10_Witness ==
    /\ s3_results.exists
    /\ Len(event.images) = 2
    /\ s3_results.body[1].error # "none"
    /\ s3_results.body[2].error = "none"

\* C11: a worker whose script has ended without being killed has left the
\* job in a terminal status.
C11_EndedWorkerIsTerminal ==
    (w_pc \in {"done", "exited"}) => (ssm_status \in TerminalStatuses)

\* C12: a get_job_status call for a job without a status record returns
\* status unknown and a null instance reference.
C12_UnknownWithoutRecord ==
    (gs_pc = "done" /\ ssm_status = "none") =>
        /\ job_info.status = "unknown"
        /\ job_info.instance_id = "none"
        /\ ~job_info.error

\* C13: when the status read is completed and the fetch of results.json
\* fails, get_job_status returns status completed with results_error and
\* without results, and the call does not fail.
C13_ResultsErrorIsSubField ==
    (gs_pc = "done" /\ gs_fetch_failed) =>
        /\ job_info.status = "completed"
        /\ job_info.results_error
        /\ ~job_info.has_results
        /\ ~job_info.error

C13_Witness ==
    /\ gs_pc = "done"
    /\ gs_fetch_failed
    /\ job_info.results_error
    /\ s3_results.exists

\* C14: a job_info returned by get_job_status holds results only if the
\* status it reports is completed.
C14_ResultsOnlyWhenCompleted ==
    (gs_pc = "done" /\ job_info.has_results) => job_info.status = "completed"

C14_Witness ==
    /\ gs_pc = "done"
    /\ job_info.has_results
    /\ job_info.status = "completed"
    /\ Len(job_info.results) = 2

\* C15: a list request whose scan succeeded returns one entry per chosen job
\* id: the ids are those with a status record, no id twice, in descending
\* order of job_id, at most limit of them and none smaller than an id left
\* out; an entry whose lookup failed is in the list like any other.
C15_ListRecent ==
    (ls_pc = "done") =>
        LET known == DOMAIN ls_store
            n == Len(ls_jobs)
            got == { ls_jobs[i].job_id : i \in 1..n }
        IN  /\ got \subseteq known
            /\ \A i, j \in 1..n : (i < j) => LexLess(ls_jobs[j].job_id, ls_jobs[i].job_id)
            /\ n <= ls_limit
            /\ n = IF Cardinality(known) <= ls_limit THEN Cardinality(known) ELSE ls_limit
            /\ \A j \in known \ got : \A g \in got : LexLess(j, g)

\* three jobs stored, limit two: the two greatest ids are listed, the first
\* of them by an entry whose lookup failed
C15_Witness ==
    /\ ls_pc = "done"
    /\ Cardinality(DOMAIN ls_store) > ls_limit
    /\ Len(ls_jobs) = 2
    /\ ls_jobs[1].error
    /\ ~ls_jobs[2].error

\* the faces of image i that a set of <<image index, position>> pairs names
FacesAt(pairs, i) == { t[2] : t \in { u \in pairs : u[1] = i } }

\* C16: in every per-image result, of the worker and of the synchronous
\* handler, faces_indexed is at most faces_detected, and a result with
\* faces_detected = 0 has no faces and its image had no index write attempted.
\* A count a record does not carry reads as 0 and an absent faces list as
\* empty, as the summary of lambda_handler.py reads them.
C16_IndexedWithinDetected ==
    /\ \A i \in 1..Len(results) :
          /\ FacesIndexedOf(results[i]) <= FacesDetectedOf(results[i])
          /\ (FacesDetectedOf(results[i]) = 0) =>
                 /\ FacesOf(results[i]) = <<>>
                 /\ FacesAt(es_tried, i) = {}
    /\ \A i \in 1..Len(sy_results) :
          /\ FacesIndexedOf(sy_results[i]) <= FacesDetectedOf(sy_results[i])
          /\ (FacesDetectedOf(sy_results[i]) = 0) =>
                 /\ FacesOf(sy_results[i]) = <<>>
                 /\ FacesAt(sy_tried, i) = {}

\* the worker found no face in the first image and one face in the second,
\* whose index write failed
C16_Witness ==
    /\ Len(results) = 2
    /\ ~HasError(results[1])
    /\ results[1].faces_detected = 0
    /\ results[2].faces_detected = 1
    /\ results[2].faces_indexed = 0
    /\ <<2, 1>> \in es_tried

\* C17: a per-image result carries an error field exactly when the image
\* failed to process (undecodable, upload, model or detection exception), and
\* a result with an error field has faces_detected = 0 and faces_indexed = 0
\* (a faces_indexed the record does not carry reads as 0).
C17_ErrorIffFailed ==
    /\ \A i \in 1..Len(results) :
          /\ HasError(results[i]) <=> (w_truth[i].outcome # "ok")
          /\ HasError(results[i]) =>
                 /\ FacesDetectedOf(results[i]) = 0
                 /\ FacesIndexedOf(results[i]) = 0
    /\ \A i \in 1..Len(sy_results) :
          /\ HasError(sy_results[i]) <=> (sy_truth[i].outcome # "ok")
          /\ HasError(sy_results[i]) =>
                 /\ FacesDetectedOf(sy_results[i]) = 0
                 /\ FacesIndexedOf(sy_results[i]) = 0

\* the synchronous handler returned: detection raised for the first image,
\* the second has one face whose index write failed and carries no error
C17_Witness ==
    /\ sy_pc = "returned"
    /\ Len(sy_results) = 2
    /\ sy_truth[1].outcome = "detect"
    /\ HasError(sy_results[1])
    /\ ~HasError(sy_results[2])
    /\ sy_results[2].faces_detected = 1
    /\ sy_results[2].faces_indexed = 0

\* an image that could not be decoded, and a decodable one without a face
Undecoded(t) == t.outcome \in {"decode", "b64"}
NoFaceFound(t) == t.outcome = "ok" /\ t.faces = 0

\* C18: in both flows an undecodable image gives a record with an error
\* field that names the decode failure, a decodable image without a face gives
\* a record with faces_detected = 0 and no error field, and the two records
\* never have the same set of fields.
C18_DecodeErrorDistinct ==
    /\ \A i \in 1..Len(results) :
          /\ Undecoded(w_truth[i]) =>
                 HasError(results[i]) /\ results[i].error = "decode"
          /\ NoFaceFound(w_truth[i]) =>
                 ~HasError(results[i]) /\ FacesDetectedOf(results[i]) = 0
    /\ \A i, j \in 1..Len(results) :
          (Undecoded(w_truth[i]) /\ NoFaceFound(w_truth[j])) =>
              results[i].fields # results[j].fields
    /\ \A i \in 1..Len(sy_results) :
          /\ Undecoded(sy_truth[i]) =>
                 /\ HasError(sy_results[i])
                 /\ sy_results[i].error \in {"Could not decode image", "Failed to decode image"}
          /\ NoFaceFound(sy_truth[i]) =>
                 ~HasError(sy_results[i]) /\ FacesDetectedOf(sy_results[i]) = 0
    /\ \A i, j \in 1..Len(sy_results) :
          (Undecoded(sy_truth[i]) /\ NoFaceFound(sy_truth[j])) =>
              sy_results[i].fields # sy_results[j].fields

\* the worker wrote its results: the first image was undecodable, the second
\* decodable without a face
C18_Witness ==
    /\ s3_results.exists
    /\ Len(results) = 2
    /\ w_truth[1].outcome = "decode"
    /\ NoFaceFound(w_truth[2])
    /\ HasError(results[1])
    /\ ~HasError(results[2])

\* C19: a failure of one image is recorded in that image's result and the
\* other images are still processed and reported: a synchronous request that
\* returned reports one result per submitted image, and so do the results the
\* worker stored.
C19_EveryImageReported ==
    /\ (sy_pc = "returned" /\ sy_event.has_images) =>
           /\ sy_response.kind = "processed"
           /\ Len(sy_response.results) = Len(sy_event.images)
    /\ s3_results.exists => Len(s3_results.body) = Len(s3_keys)

\* C20: for every image whose face loop ran, in both flows, an index write
\* was attempted for each detected face whatever the outcome of the earlier
\* writes, faces_detected counts every face found, and faces_indexed is the
\* number of faces whose write succeeded, which is the length of faces.
C20_IndexFailureContinues ==
    /\ \A i \in 1..Len(results) :
          ~HasError(results[i]) =>
              /\ results[i].faces_detected = w_truth[i].faces
              /\ FacesAt(es_tried, i) = 1..results[i].faces_detected
              /\ results[i].faces_indexed = Cardinality(FacesAt(es_docs, i))
              /\ results[i].faces_indexed = Len(results[i].faces)
              /\ FacesAt(es_docs, i) \subseteq FacesAt(es_tried, i)
    /\ \A i \in 1..Len(sy_results) :
          ~HasError(sy_results[i]) =>
              /\ sy_results[i].faces_detected = sy_truth[i].faces
              /\ FacesAt(sy_tried, i) = 1..sy_results[i].faces_detected
              /\ sy_results[i].faces_indexed = Cardinality(FacesAt(sy_docs, i))
              /\ sy_results[i].faces_indexed = Len(sy_results[i].faces)
              /\ FacesAt(sy_docs, i) \subseteq FacesAt(sy_tried, i)

\* two faces in the first image of a synchronous request: the write of the
\* first failed, the write of the second was made and succeeded
C20_Witness ==
    /\ Len(sy_results) >= 1
    /\ sy_results[1].faces_detected = 2
    /\ sy_results[1].faces_indexed = 1
    /\ <<1, 1>> \in sy_tried \ sy_docs
    /\ <<1, 2>> \in sy_docs

\* C21: when dump.py has finished an image, a client.index call was made
\* for every face found in it on every host of ES_HOSTS, whatever the outcome
\* of the calls made before.
C21_EveryReplicaTried ==
    \A p \in DOMAIN dp : \A i \in 1..dp[p].img :
        \A f \in 1..dp[p].found[i] : \A h \in Hosts : <<p, i, f, h>> \in dp_tried

\* the write of the first face of the first image raised on the first host;
\* the image is finished with two faces, each tried on both hosts
C21_Witness ==
    /\ dp # <<>>
    /\ dp[1].img >= 1
    /\ dp[1].found[1] = 2
    /\ dp_failed = <<1, 1, 1, 1>>
    /\ {<<1, 1, 1, 2>>, <<1, 1, 2, 1>>, <<1, 1, 2, 2>>} \subseteq dp_tried

\* C22: a face document is written to an index only by a process that has
\* ensured the index before: one whose code runs the create-if-absent and, in
\* dump.py, that saw the index exist or created it on the host written to.
C22_NoWriteBeforeEnsure ==
    /\ (es_docs # {}) => ("worker" \in EnsuresIndex)
    /\ (sy_docs # {}) => ("sync" \in EnsuresIndex)
    /\ \A t \in dp_tried : dp[t[1]].seen[t[4]] \in {"exists", "created", "already_exists"}

\* C23: a create_index_on_both step that finds the index present on its
\* host issues no create request and changes nothing on the hosts: the process
\* goes on to the next host, or to the rest of main, having seen the index (or
\* a failed call), and the count of create requests and the indexes stay as
\* they were.
C23_CreateExistingIsNoOp ==
    [][\A p \in DOMAIN dp :
          (dp[p].pc = "check" /\ ix_exists[dp[p].host] /\ dp'[p] # dp[p]) =>
              /\ dp'[p].pc \in {"check", "model"}
              /\ dp'[p].seen[dp[p].host] \in {"exists", "unreachable"}
              /\ ix_calls' = ix_calls
              /\ ix_exists' = ix_exists]_vars

\* two calls in a row on the first host: the first created the index, the
\* second found it and issued no request
C23_Witness ==
    /\ dp # <<>>
    /\ dp[1].seen[1] = "created"
    /\ dp[2].seen[1] = "exists"
    /\ ix_calls[1] = 1
    /\ ix_exists[1]

\* C24: when several processes run create_index_on_both against the same
\* hosts, each of them sees, on every host, the index exist or its own create
\* succeed: none has its create request rejected because the index exists.
C24_ConcurrentCreateNoError ==
    \A p \in DOMAIN dp : \A h \in Hosts : dp[p].seen[h] # "already_exists"

\* C25: in one process at most one FaceAnalysis instance is ever
\* constructed, and all the calls of get_face_model that return, by whichever
\* caller and however interleaved, return that one instance.
C25_ModelInitializedOnce ==
    /\ fm_made <= 1
    /\ \A t, u \in DOMAIN fm_th :
          \A i \in 1..Len(fm_th[t].got) : \A j \in 1..Len(fm_th[u].got) :
              fm_th[t].got[i] = fm_th[u].got[j]

\* C26: after an index call that succeeded the host holds exactly one
\* document with the face_id written, and its body is the one written, also
\* when a document with that id and that body was there before; no id is ever
\* held twice.
C26_SameIdOneDocument ==
    /\ \A d \in DOMAIN ix_docs : CountId(ix_docs, d.id) = 1
    /\ (ix_last # <<>> /\ ix_last.ok) =>
           /\ CountId(ix_docs, ix_last.id) = 1
           /\ BagIn([id |-> ix_last.id, body |-> ix_last.body], ix_docs)

\* the last call wrote an id and a body the host already held
C26_Witness ==
    /\ ix_last # <<>>
    /\ ix_last.ok
    /\ ix_last.had
    /\ ix_last.same
    /\ CountId(ix_docs, ix_last.id) = 1

\* C27: no index call of a later run of the same image meets a document
\* with its face_id: every successful call adds a document and replaces none.
C27_RerunNeverOverwrites ==
    (ix_last # <<>> /\ ix_last.ok) => ~ix_last.had

\* the text between the first and the second separator of a filename that
\* has a separator (up to the end when there is no second one)
SecondSegment(fn) ==
    LET seps == { i \in 1..Len(fn) : fn[i] = "_" }
        first == CHOOSE i \in seps : \A j \in seps : i <= j
        later == { i \in seps : i > first }
        stop == IF later = {} THEN Len(fn) + 1
                ELSE CHOOSE i \in later : \A j \in later : i <= j
    IN  SubSeq(fn, first + 1, stop - 1)

\* fewer than two segments, or a second segment that is not an integer
Malformed(fn) ==
    \/ \A i \in 1..Len(fn) : fn[i] # "_"
    \/ SecondSegment(fn) = <<>>
    \/ \E k \in 1..Len(SecondSegment(fn)) : SecondSegment(fn)[k] # "1"

\* C28: for a malformed filename the upload of dump.py ends with the
\* ValueError of the date derivation and never calls put_object, and the upload
\* of lambda_handler.py derives the tag of the current UTC day and calls
\* put_object.
C28_StrictFailsLenientFallsBack ==
    (dt_name # <<>> /\ Malformed(dt_name)) =>
        /\ dt_strict.done =>
               /\ ~dt_strict.date.ok
               /\ ~dt_strict.put_called
               /\ ~dt_strict.stored
        /\ dt_lenient.done =>
               /\ dt_lenient.date = [ok |-> TRUE, day |-> dt_now \div MsPerDay]
               /\ dt_lenient.put_called

\* "a_a": the second segment is not a number; the strict upload failed
\* without a put, the lenient upload stored the object under today's tag
C28_Witness ==
    /\ dt_name = <<"a", "_", "a">>
    /\ dt_strict.done
    /\ ~dt_strict.put_called
    /\ dt_lenient.done
    /\ dt_lenient.stored
    /\ dt_lenient.date.day = dt_now \div MsPerDay

\* C29: a response that lambda_handler of the orchestrator returns because
\* an image entry lacks its filename, or has data that does not decode, has a
\* status code of the 4xx class.
C29_MalformedEntryIs4xx ==
    (l_pc = "returned" /\ response.cause = "failed_entry") =>
        (response.statusCode >= 400 /\ response.statusCode <= 499)

\* C30: the response the synchronous handler returns after its loop lists
\* one result per submitted image, in submission order; total_images is the
\* number of images submitted, the two face totals are the sums of the
\* per-image counts (an absent count read as 0), total_faces_indexed is at most
\* total_faces_detected, and errors is the number of results with an error.
C30_SummaryMatchesResults ==
    (sy_pc = "returned" /\ sy_response.kind = "processed") =>
        LET res == sy_response.results
            imgs == sy_event.images
        IN  /\ Len(res) = Len(imgs)
            /\ \A i \in 1..Len(res) : res[i].filename = imgs[i].filename
            /\ sy_response.total_images = Len(imgs)
            /\ sy_response.total_faces_detected = SumOver(res, "faces_detected")
            /\ sy_response.total_faces_indexed = SumOver(res, "faces_indexed")
            /\ sy_response.total_faces_indexed <= sy_response.total_faces_detected
            /\ sy_response.errors = Cardinality({ i \in 1..Len(res) : HasError(res[i]) })

\* two images: the first failed, the second has two faces of which one was
\* indexed
C30_Witness ==
    /\ sy_pc = "returned"
    /\ sy_response.kind = "processed"
    /\ sy_response.total_images = 2
    /\ sy_response.errors = 1
    /\ sy_response.total_faces_detected = 2
    /\ sy_response.total_faces_indexed = 1
    /\ HasError(sy_response.results[1])

\* C31: of two jobs admitted at different epoch seconds the one admitted
\* later has the greater job_id in the order of str, and a list request
\* returns the jobs it lists newest first.
C31_LaterJobGreaterId ==
    (adm # <<>>) =>
        /\ \A a, b \in DOMAIN adm.born :
              (adm.born[a] < adm.born[b]) => LexLess(a, b)
        /\ (ls_pc = "done") =>
              \A i, j \in 1..Len(ls_jobs) :
                  (i < j) => adm.born[ls_jobs[i].job_id] >= adm.born[ls_jobs[j].job_id]

\* the worker ended without running to its end (killed, or the script
\* stopped at a failed command) and had written no terminal status
EndedEarly == w_pc \in {"killed", "exited"} /\ term_writes = 0

\* C32: when the worker was killed or exited abnormally before it wrote a
\* terminal status, the stored status of a job whose submit returned 200 is
\* processing, and no later step changes a stored processing or stores a
\* terminal status.
C32_KilledStaysProcessing ==
    /\ []((EndedEarly /\ response.statusCode = 200) => ssm_status = "processing")
    /\ [][EndedEarly =>
            /\ (ssm_status = "processing") => (ssm_status' = "processing")
            /\ ssm_status' \notin TerminalStatuses]_vars

\* the worker was killed after it had processed an image; submit had
\* returned 200
C32_Witness ==
    /\ w_pc = "killed"
    /\ w_idx >= 1
    /\ term_writes = 0
    /\ l_pc = "returned"
    /\ response.statusCode = 200
    /\ ssm_status = "processing"

\* what the job owns in the parameter store, the object store and the
\* index, its instance, and what the worker has done
StoredState ==
    <<ssm_status, ssm_instance, s3_input, s3_results, es_docs, launched, ls_store,
      w_pc, w_idx, results, term_writes>>

\* C33: a step of get_job_status or of list_recent_jobs leaves every
\* status and instance parameter, every stored object, every index document,
\* the instance and the progress of the worker as they were.
C33_ReadsChangeNothing ==
    [][(gs_vars' # gs_vars \/ <<ls_pc, ls_ids, ls_jobs>>' # <<ls_pc, ls_ids, ls_jobs>>)
          => (StoredState' = StoredState)]_vars

\* a poll that began while the worker was in its loop has returned the
\* status processing; the worker is still where it was
C33_Witness ==
    /\ gs_pc = "done"
    /\ job_info.status = "processing"
    /\ w_pc = "loop"
    /\ w_idx = 1
    /\ ssm_status = "processing"

\* C34: when lambda_handler of the orchestrator has returned an error
\* response, no instance was launched for the job, also when the write of the
\* status or of the instance parameter failed after the launch.
C34_ErrorMeansNoWorker ==
    (l_pc = "returned" /\ response.error) => (launched = 0 /\ w_pc = "off")

\* C35: a job_info that get_job_status returns with status error was
\* read from a status parameter whose value is error.
C35_ErrorOnlyWhenStored ==
    (gs_pc = "done" /\ job_info.status = "error") => ssm_status = "error"

\* C36: in every flow an index write is made only for an image whose
\* object was stored: the worker indexes faces of keys that lie in the input
\* prefix, the synchronous handler and dump.py make no index call for an image
\* whose put_object raised.
C36_IndexOnlyUploaded ==
    /\ (es_tried # {}) => ~put_failed
    /\ \A t \in es_tried : s3_keys[t[1]] \in s3_input
    /\ \A t \in sy_tried : sy_truth[t[1]].outcome # "upload"
    /\ \A t \in dp_tried :
          IF t[2] <= dp[t[1]].img THEN dp[t[1]].put[t[2]] ELSE dp[t[1]].up

\* dump.py: the upload of the first image failed and nothing was indexed
\* for it; the second image was stored and its face indexed on both hosts
C36_Witness ==
    /\ dp # <<>>
    /\ dp[1].img = 2
    /\ dp[1].put = <<FALSE, TRUE>>
    /\ { t \in dp_tried : t[2] = 1 } = {}
    /\ {<<1, 2, 1, 1>>, <<1, 2, 1, 2>>} \subseteq dp_tried

\* C37: at most one instance is launched for a job, and the job has a
\* status parameter only if an instance was launched for it; the terminal
\* status and results.json are written only by the worker of that instance.
C37_OneWorkerPerJob ==
    /\ launched <= 1
    /\ (ssm_status # "none") => (launched = 1)
    /\ (term_writes > 0 \/ s3_results.exists) => (launched = 1)

\* the worker of the one instance has stored results.json and completed
C37_Witness ==
    /\ launched = 1
    /\ l_pc = "returned"
    /\ s3_results.exists
    /\ ssm_status = "completed"
    /\ w_pc = "done"

\* C38: within one run of the worker any two detected faces, of the same
\* image or of different images, get different face_ids, whatever filenames
\* were submitted and also when their random suffixes are equal.
C38_FaceIdsDistinctInRun ==
    (fid # <<>>) =>
        \A x, y \in fid.ids :
            (<<x.img, x.pos>> # <<y.img, y.pos>>) => (x.id # y.id)

====
